---------------------------- MODULE Spec2Model ----------------------------
(***************************************************************************)
(* Model of the NetCalc command-line option handler                        *)
(* (C/option_handler/src/option_handler.c).                                *)
(*                                                                         *)
(* A token of the argument vector is a sequence of one-character strings,  *)
(* so that getopt()'s character scan, strnlen() and the numeric parser are *)
(* computed on the text itself.  C index i of argv is element i + 1 of the *)
(* sequence argv.                                                          *)
(***************************************************************************)
EXTENDS Integers, Sequences, FiniteSets

\* ------------------------------------------------------------------ bounds

\* Option groups concatenated to build the argument vector of the process.
MaxGroups == 2

\* Calls of process_options made by the process on its argument vector.
MaxCalls == 2

\* --------------------------------------------------------------- constants

MIN_NUM_THREADS == 2
MAX_PORT_VALUE == 65535
MIN_PORT_VALUE == 1025
MAX_PORT_SIZE == 6

\* utilities.h is not part of the visible sources; only the two result codes
\* process_options compares against are modelled.
E_SUCCESS == "E_SUCCESS"
E_FAILURE == "E_FAILURE"

INT32_MAX == 2147483647

\* The null pointer, as a value no text can equal (texts are sequences of
\* one-character strings).
NULL == <<"(null)">>

\* ------------------------------------------------------------------ tokens

Digits == {"0", "1", "2", "3", "4", "5", "6", "7", "8", "9"}

DigitVal(c) ==
    CASE c = "0" -> 0 [] c = "1" -> 1 [] c = "2" -> 2 [] c = "3" -> 3
      [] c = "4" -> 4 [] c = "5" -> 5 [] c = "6" -> 6 [] c = "7" -> 7
      [] c = "8" -> 8 [] c = "9" -> 9

ProgName == <<"n", "c">>

FlagN == <<"-", "n">>
FlagP == <<"-", "p">>
FlagH == <<"-", "h">>
FlagX == <<"-", "x">>
FlagColon == <<"-", ":">>
DashDash == <<"-", "-">>
Extra == <<"e">>

\* 2^31, the least text beyond the signed 32-bit range.
TooLarge == <<"2", "1", "4", "7", "4", "8", "3", "6", "4", "8">>

\* Texts given to -n.
NValues ==
    { <<"4">>, <<"2">>, <<"1">>, <<"0">>, <<"-", "5">>, <<"0", "8">>,
      <<"a">>, <<>>, TooLarge }

\* Texts given to -p.
PValues ==
    { <<"8", "0", "8", "0">>, <<"1", "0", "2", "5">>, <<"1", "0", "2", "4">>,
      <<"6", "5", "5", "3", "5">>, <<"6", "5", "5", "3", "6">>,
      <<"0", "1", "0", "2", "5">>, <<"+", "8", "0", "8", "0">>,
      <<"0", "0", "1", "0", "2", "5">>, <<"0", "0", "0", "1", "0", "2", "5">>,
      <<"a">>, <<>>, TooLarge }

\* An option group: a flag with its value, a flag alone, or a positional.
Groups ==
    { <<FlagN, v>> : v \in NValues } \cup { <<FlagP, v>> : v \in PValues } \cup
    { <<FlagH>>, <<FlagX>>, <<FlagColon>>, <<FlagN>>, <<FlagP>>, <<Extra>>,
      <<DashDash>>,
      <<<<"-", "h", "n", "4">>>> }

RECURSIVE Flatten(_)
Flatten(gs) == IF gs = <<>> THEN <<>> ELSE Head(gs) \o Flatten(Tail(gs))

ArgVectors ==
    { <<ProgName>> \o Flatten(gs) :
        gs \in UNION { [1..k -> Groups] : k \in 0..MaxGroups } }

\* ------------------------------------------------------------------- state

VARIABLES
    argv,           \* the argument vector (getopt permutes it in place)
    argv0,          \* the argument vector as the process received it
    posixly_correct,\* POSIXLY_CORRECT is set in the environment
    optind,         \* getopt: index of the next argv element to scan
    optarg,         \* getopt: value of the last option, or NULL
    optopt,         \* getopt: the last offending option character
    getopt_data,    \* getopt's static scan state
    options,        \* the caller's options_t record
    pc,             \* position of the running call, "idle" between calls
    exit_code,      \* process_options' local exit_code
    option,         \* process_options' local option: getopt's last result
    ret,            \* value returned by the last completed call
    out,            \* what the running (or last) call has written
    entry,          \* the record and getopt's cursor at entry to the running
                    \* (or last) call
    mode,           \* how the running (or last) call was entered:
                    \* "fresh" (record emptied), "kept" (record as it stood)
                    \* or "null" (a null pointer passed)
    prev,           \* outcome of the call before the last one
    calls           \* calls made so far

vars ==
    << argv, argv0, posixly_correct, optind, optarg, optopt, getopt_data,
       options, pc, exit_code, option, ret, out, entry, mode, prev, calls >>

argc == Len(argv)

\* argv[i] of the C program.
Arg(av, i) == av[i + 1]

EmptyOptions ==
    [n_flag |-> FALSE, n_value |-> 0, p_flag |-> FALSE, p_value |-> NULL]

\* ------------------------------------------------------------------ output

Stderr(msg, args) == [stream |-> "stderr", msg |-> msg, args |-> args]
Stdout(msg, args) == [stream |-> "stdout", msg |-> msg, args |-> args]

\* print_error() of utilities.h: one diagnostic line.
print_error(msg) == Stderr(msg, <<>>)

\* The whole fixed usage text, written by one call of print_help_menu.
print_help_menu == Stdout("help menu", <<>>)

\* ---------------------------------------------------------- numeric parser

\* Digits of a text accumulated most significant first; -1 once the value
\* no longer fits in 31 bits.
RECURSIVE Magnitude(_, _)
Magnitude(ds, acc) ==
    IF ds = <<>> THEN acc
    ELSE IF acc > (INT32_MAX - DigitVal(Head(ds))) \div 10 THEN -1
    ELSE Magnitude(Tail(ds), acc * 10 + DigitVal(Head(ds)))

\* str_to_int32() of number_converter.h: an optional sign and at least one
\* digit, nothing else, within the signed 32-bit range.  The most negative
\* value, -2^31, is the one magnitude that does not fit in 31 bits and is
\* valid; no text of the model denotes it.
str_to_int32(str) ==
    LET signed == str # <<>> /\ Head(str) \in {"+", "-"}
        ds     == IF signed THEN Tail(str) ELSE str
        wf     == ds # <<>> /\ \A i \in 1..Len(ds) : ds[i] \in Digits
        mag    == IF wf THEN Magnitude(ds, 0) ELSE -1
    IN  IF wf /\ mag >= 0
        THEN [exit_code |-> E_SUCCESS,
              signed_num |-> IF signed /\ Head(str) = "-" THEN 0 - mag ELSE mag]
        ELSE [exit_code |-> E_FAILURE, signed_num |-> 0]

\* strlen in place of strnlen: the length is not capped at maxlen.
strnlen_uncapped(s, maxlen) == Len(s)

\* strnlen(): the length of s, counted no further than maxlen.
strnlen(s, maxlen) == IF Len(s) < maxlen THEN Len(s) ELSE maxlen

\* ------------------------------------------------------------------ getopt

\* The option string "n:p:h": the option characters, and those taking a value.
OptChars == {"n", "p", "h"}
OptWithArg == {"n", "p"}

\* glibc's NONOPTION_P: the element does not start with '-', or is "-" alone.
NonOption(t) == Len(t) < 2 \/ t[1] # "-"

Min(a, b) == IF a < b THEN a ELSE b

\* glibc's exchange(): the non-options av[first..last-1] and the options
\* av[last..oi-1] swap places.
exchange(av, first, last, oi) ==
    [ i \in 1..Len(av) |->
        IF i - 1 < first \/ i - 1 >= oi THEN av[i]
        ELSE IF i - 1 < first + (oi - last) THEN av[i + (last - first)]
        ELSE av[i - (oi - last)] ]

\* Index of the first element at or after i that is an option, or argc.
RECURSIVE SkipNonOptions(_, _)
SkipNonOptions(av, i) ==
    IF i < Len(av) /\ NonOption(Arg(av, i)) THEN SkipNonOptions(av, i + 1) ELSE i

\* What one call of getopt(argc, argv, "n:p:h") returns and leaves in its
\* globals (glibc, _getopt_internal_r); c = "-1" is the end of the scan.
\* The ordering is fixed by the first call: REQUIRE_ORDER under
\* POSIXLY_CORRECT, PERMUTE otherwise.
GetoptResult(c, av, oi, oarg, oopt, nextchar, first, last, err) ==
    [c |-> c, argv |-> av, optind |-> oi, optarg |-> oarg, optopt |-> oopt,
     data |-> [initialized |-> TRUE, nextchar |-> nextchar,
               first_nonopt |-> first, last_nonopt |-> last],
     err |-> err]

\* The short option character at the head of nextchar, in element oi.
GetoptChar(av, oi0, nextchar0, first, last) ==
    LET c        == Head(nextchar0)
        nextchar == Tail(nextchar0)
        oi       == IF nextchar = <<>> THEN oi0 + 1 ELSE oi0
    IN  IF c \notin OptChars
        THEN GetoptResult("?", av, oi, NULL, c, nextchar, first, last,
                          <<Stderr("getopt: invalid option", <<<<c>>>>)>>)
        ELSE IF c \notin OptWithArg
        THEN GetoptResult(c, av, oi, NULL, optopt, nextchar, first, last, <<>>)
        ELSE IF nextchar # <<>>
        THEN GetoptResult(c, av, oi + 1, nextchar, optopt, <<>>, first, last, <<>>)
        ELSE IF oi = Len(av)
        THEN GetoptResult("?", av, oi, NULL, c, <<>>, first, last,
                          <<Stderr("getopt: option requires an argument", <<<<c>>>>)>>)
        ELSE GetoptResult(c, av, oi + 1, Arg(av, oi), optopt, <<>>, first, last, <<>>)

\* Advance to the next argv element (nextchar is exhausted).
GetoptAdvance(av0, oi0, first0, last0) ==
    LET n      == Len(av0)
        last1  == Min(last0, oi0)
        first1 == Min(first0, oi0)
        permute == ~posixly_correct
        swap1  == permute /\ first1 # last1 /\ last1 # oi0
        av1    == IF swap1 THEN exchange(av0, first1, last1, oi0) ELSE av0
        first2 == IF swap1 THEN first1 + (oi0 - last1)
                  ELSE IF permute /\ last1 # oi0 THEN oi0 ELSE first1
        oi2    == IF permute THEN SkipNonOptions(av1, oi0) ELSE oi0
        last2  == IF swap1 THEN oi2 ELSE IF permute THEN oi2 ELSE last1
        dd     == oi2 # n /\ Arg(av1, oi2) = DashDash
        oi3    == IF dd THEN oi2 + 1 ELSE oi2
        swap3  == dd /\ first2 # last2 /\ last2 # oi3
        av3    == IF swap3 THEN exchange(av1, first2, last2, oi3) ELSE av1
        first3 == IF swap3 THEN first2 + (oi3 - last2)
                  ELSE IF dd /\ first2 = last2 THEN oi3 ELSE first2
        last3  == IF dd THEN n ELSE last2
        oi4    == IF dd THEN n ELSE oi3
    IN  IF oi4 = n
        THEN GetoptResult("-1", av3, IF first3 # last3 THEN first3 ELSE oi4,
                          NULL, optopt, <<>>, first3, last3, <<>>)
        ELSE IF NonOption(Arg(av3, oi4))
        THEN GetoptResult("-1", av3, oi4, NULL, optopt, <<>>, first3, last3, <<>>)
        ELSE GetoptChar(av3, oi4, Tail(Arg(av3, oi4)), first3, last3)

getopt ==
    LET init  == optind = 0 \/ ~getopt_data.initialized
        oi0   == IF init /\ optind = 0 THEN 1 ELSE optind
        first == IF init THEN oi0 ELSE getopt_data.first_nonopt
        last  == IF init THEN oi0 ELSE getopt_data.last_nonopt
        nextchar == IF init THEN <<>> ELSE getopt_data.nextchar
    IN  IF nextchar = <<>>
        THEN GetoptAdvance(argv, oi0, first, last)
        ELSE GetoptChar(argv, oi0, nextchar, first, last)


\* --------------------------------------------------------- option handlers

HandlerResult(code, opts, err) ==
    [exit_code |-> code, options |-> opts, err |-> err]

\* process_n_option without the check of n_flag: a second -n overwrites.
process_n_option_overwriting(oarg, opts) ==
    IF oarg = NULL
    THEN HandlerResult(E_FAILURE, opts, <<print_error("NULL argument passed.")>>)
    ELSE LET num_threads == str_to_int32(oarg)
         IN  IF E_SUCCESS # num_threads.exit_code
             THEN HandlerResult(num_threads.exit_code, opts,
                      <<print_error("Unable to convert 'n_value' to number.")>>)
             ELSE IF MIN_NUM_THREADS > num_threads.signed_num
             THEN HandlerResult(E_FAILURE, opts,
                      <<print_error("process_options(): Number of threads must be 2 or more.")>>)
             ELSE HandlerResult(E_SUCCESS,
                      [opts EXCEPT !.n_flag = TRUE,
                                   !.n_value = num_threads.signed_num],
                      <<>>)

\* process_n_option with the minimum taken as 1.
process_n_option_min_one(oarg, opts) ==
    IF oarg = NULL
    THEN HandlerResult(E_FAILURE, opts, <<print_error("NULL argument passed.")>>)
    ELSE IF opts.n_flag = TRUE
    THEN HandlerResult(E_FAILURE, opts,
             <<print_error("process_options(): '-n' flag already true.")>>)
    ELSE LET num_threads == str_to_int32(oarg)
         IN  IF E_SUCCESS # num_threads.exit_code
             THEN HandlerResult(num_threads.exit_code, opts,
                      <<print_error("Unable to convert 'n_value' to number.")>>)
             ELSE IF MIN_NUM_THREADS - 1 > num_threads.signed_num
             THEN HandlerResult(E_FAILURE, opts,
                      <<print_error("process_options(): Number of threads must be 2 or more.")>>)
             ELSE HandlerResult(E_SUCCESS,
                      [opts EXCEPT !.n_flag = TRUE,
                                   !.n_value = num_threads.signed_num],
                      <<>>)

\* process_n_option storing the flag but not the converted value.
process_n_option_flag_only(oarg, opts) ==
    IF oarg = NULL
    THEN HandlerResult(E_FAILURE, opts, <<print_error("NULL argument passed.")>>)
    ELSE IF opts.n_flag = TRUE
    THEN HandlerResult(E_FAILURE, opts,
             <<print_error("process_options(): '-n' flag already true.")>>)
    ELSE LET num_threads == str_to_int32(oarg)
         IN  IF E_SUCCESS # num_threads.exit_code
             THEN HandlerResult(num_threads.exit_code, opts,
                      <<print_error("Unable to convert 'n_value' to number.")>>)
             ELSE IF MIN_NUM_THREADS > num_threads.signed_num
             THEN HandlerResult(E_FAILURE, opts,
                      <<print_error("process_options(): Number of threads must be 2 or more.")>>)
             ELSE HandlerResult(E_SUCCESS, [opts EXCEPT !.n_flag = TRUE], <<>>)

\* process_n_option writing the record before it tests the conversion.
process_n_option_storing_unparsed(oarg, opts) ==
    IF oarg = NULL
    THEN HandlerResult(E_FAILURE, opts, <<print_error("NULL argument passed.")>>)
    ELSE IF opts.n_flag = TRUE
    THEN HandlerResult(E_FAILURE, opts,
             <<print_error("process_options(): '-n' flag already true.")>>)
    ELSE LET num_threads == str_to_int32(oarg)
             stored == [opts EXCEPT !.n_flag = TRUE,
                                    !.n_value = num_threads.signed_num]
         IN  IF E_SUCCESS # num_threads.exit_code
             THEN HandlerResult(num_threads.exit_code, stored,
                      <<print_error("Unable to convert 'n_value' to number.")>>)
             ELSE IF MIN_NUM_THREADS > num_threads.signed_num
             THEN HandlerResult(E_FAILURE, opts,
                      <<print_error("process_options(): Number of threads must be 2 or more.")>>)
             ELSE HandlerResult(E_SUCCESS, stored, <<>>)

process_n_option(oarg, opts) ==
    IF oarg = NULL
    THEN HandlerResult(E_FAILURE, opts, <<print_error("NULL argument passed.")>>)
    ELSE IF opts.n_flag = TRUE
    THEN HandlerResult(E_FAILURE, opts,
             <<print_error("process_options(): '-n' flag already true.")>>)
    ELSE LET num_threads == str_to_int32(oarg)
         IN  IF E_SUCCESS # num_threads.exit_code
             THEN HandlerResult(num_threads.exit_code, opts,
                      <<print_error("Unable to convert 'n_value' to number.")>>)
             ELSE IF MIN_NUM_THREADS > num_threads.signed_num
             THEN HandlerResult(E_FAILURE, opts,
                      <<print_error("process_options(): Number of threads must be 2 or more.")>>)
             ELSE HandlerResult(E_SUCCESS,
                      [opts EXCEPT !.n_flag = TRUE,
                                   !.n_value = num_threads.signed_num],
                      <<>>)

\* A text without its leading zeros (one digit at least is kept).
RECURSIVE StripZeros(_)
StripZeros(t) ==
    IF Len(t) > 1 /\ Head(t) = "0" THEN StripZeros(Tail(t)) ELSE t

\* process_p_option storing the port before it validates it.
process_p_option_store_first(oarg, opts) ==
    IF oarg = NULL
    THEN HandlerResult(E_FAILURE, opts, <<print_error("NULL argument passed.")>>)
    ELSE IF opts.p_flag = TRUE
    THEN HandlerResult(E_FAILURE, opts,
             <<print_error("process_p_option(): '-p' flag already true.")>>)
    ELSE LET port_number == str_to_int32(oarg)
         IN  IF E_SUCCESS # port_number.exit_code
             THEN HandlerResult(port_number.exit_code, [opts EXCEPT !.p_flag = TRUE, !.p_value = oarg],
                      <<print_error("process_p_option(): Unable to convert 'p_value' to number.")>>)
             ELSE IF MAX_PORT_VALUE < port_number.signed_num
                     \/ MIN_PORT_VALUE > port_number.signed_num
             THEN HandlerResult(E_FAILURE, [opts EXCEPT !.p_flag = TRUE, !.p_value = oarg],
                      <<print_error("process_p_option(): Port number out of range.")>>)
             ELSE IF MAX_PORT_SIZE < strnlen(oarg, MAX_PORT_SIZE)
             THEN HandlerResult(port_number.exit_code, [opts EXCEPT !.p_flag = TRUE, !.p_value = oarg],
                      <<print_error("process_p_option(): Port string is too long.")>>)
             ELSE HandlerResult(E_SUCCESS,
                      [opts EXCEPT !.p_flag = TRUE, !.p_value = oarg],
                      <<>>)

\* process_p_option storing the port text without its leading zeros.
process_p_option_canonical(oarg, opts) ==
    IF oarg = NULL
    THEN HandlerResult(E_FAILURE, opts, <<print_error("NULL argument passed.")>>)
    ELSE IF opts.p_flag = TRUE
    THEN HandlerResult(E_FAILURE, opts,
             <<print_error("process_p_option(): '-p' flag already true.")>>)
    ELSE LET port_number == str_to_int32(oarg)
         IN  IF E_SUCCESS # port_number.exit_code
             THEN HandlerResult(port_number.exit_code, opts,
                      <<print_error("process_p_option(): Unable to convert 'p_value' to number.")>>)
             ELSE IF MAX_PORT_VALUE < port_number.signed_num
                     \/ MIN_PORT_VALUE > port_number.signed_num
             THEN HandlerResult(E_FAILURE, opts,
                      <<print_error("process_p_option(): Port number out of range.")>>)
             ELSE IF MAX_PORT_SIZE < strnlen(oarg, MAX_PORT_SIZE)
             THEN HandlerResult(port_number.exit_code, opts,
                      <<print_error("process_p_option(): Port string is too long.")>>)
             ELSE HandlerResult(E_SUCCESS,
                      [opts EXCEPT !.p_flag = TRUE, !.p_value = StripZeros(oarg)],
                      <<>>)

\* process_p_option with the range bounds themselves rejected.
process_p_option_exclusive(oarg, opts) ==
    IF oarg = NULL
    THEN HandlerResult(E_FAILURE, opts, <<print_error("NULL argument passed.")>>)
    ELSE IF opts.p_flag = TRUE
    THEN HandlerResult(E_FAILURE, opts,
             <<print_error("process_p_option(): '-p' flag already true.")>>)
    ELSE LET port_number == str_to_int32(oarg)
         IN  IF E_SUCCESS # port_number.exit_code
             THEN HandlerResult(port_number.exit_code, opts,
                      <<print_error("process_p_option(): Unable to convert 'p_value' to number.")>>)
             ELSE IF MAX_PORT_VALUE <= port_number.signed_num
                     \/ MIN_PORT_VALUE >= port_number.signed_num
             THEN HandlerResult(E_FAILURE, opts,
                      <<print_error("process_p_option(): Port number out of range.")>>)
             ELSE IF MAX_PORT_SIZE < strnlen(oarg, MAX_PORT_SIZE)
             THEN HandlerResult(port_number.exit_code, opts,
                      <<print_error("process_p_option(): Port string is too long.")>>)
             ELSE HandlerResult(E_SUCCESS,
                      [opts EXCEPT !.p_flag = TRUE, !.p_value = oarg],
                      <<>>)

\* process_p_option re-initialising the record before it stores the port.
process_p_option_clearing_n(oarg, opts) ==
    IF oarg = NULL
    THEN HandlerResult(E_FAILURE, opts, <<print_error("NULL argument passed.")>>)
    ELSE IF opts.p_flag = TRUE
    THEN HandlerResult(E_FAILURE, opts,
             <<print_error("process_p_option(): '-p' flag already true.")>>)
    ELSE LET port_number == str_to_int32(oarg)
         IN  IF E_SUCCESS # port_number.exit_code
             THEN HandlerResult(port_number.exit_code, opts,
                      <<print_error("process_p_option(): Unable to convert 'p_value' to number.")>>)
             ELSE IF MAX_PORT_VALUE < port_number.signed_num
                     \/ MIN_PORT_VALUE > port_number.signed_num
             THEN HandlerResult(E_FAILURE, opts,
                      <<print_error("process_p_option(): Port number out of range.")>>)
             ELSE IF MAX_PORT_SIZE < strnlen(oarg, MAX_PORT_SIZE)
             THEN HandlerResult(port_number.exit_code, opts,
                      <<print_error("process_p_option(): Port string is too long.")>>)
             ELSE HandlerResult(E_SUCCESS,
                      [EmptyOptions EXCEPT !.p_flag = TRUE, !.p_value = oarg],
                      <<>>)

process_p_option(oarg, opts) ==
    IF oarg = NULL
    THEN HandlerResult(E_FAILURE, opts, <<print_error("NULL argument passed.")>>)
    ELSE IF opts.p_flag = TRUE
    THEN HandlerResult(E_FAILURE, opts,
             <<print_error("process_p_option(): '-p' flag already true.")>>)
    ELSE LET port_number == str_to_int32(oarg)
         IN  IF E_SUCCESS # port_number.exit_code
             THEN HandlerResult(port_number.exit_code, opts,
                      <<print_error("process_p_option(): Unable to convert 'p_value' to number.")>>)
             ELSE IF MAX_PORT_VALUE < port_number.signed_num
                     \/ MIN_PORT_VALUE > port_number.signed_num
             THEN HandlerResult(E_FAILURE, opts,
                      <<print_error("process_p_option(): Port number out of range.")>>)
             \* exit_code still holds the conversion's E_SUCCESS on this path
             ELSE IF MAX_PORT_SIZE < strnlen(oarg, MAX_PORT_SIZE)
             THEN HandlerResult(port_number.exit_code, opts,
                      <<print_error("process_p_option(): Port string is too long.")>>)
             ELSE HandlerResult(E_SUCCESS,
                      [opts EXCEPT !.p_flag = TRUE, !.p_value = oarg],
                      <<>>)

\* ---------------------------------------------------------------- reports

\* report_invalid_options without the test of optopt: every rejected flag is
\* reported as lacking its argument.
report_invalid_options_always_requires(oopt) ==
    <<Stderr("Option '-%c' requires an argument.", <<<<oopt>>>>)>>

report_invalid_options(oopt) ==
    IF oopt = "n" \/ oopt = "p"
    THEN <<Stderr("Option '-%c' requires an argument.", <<<<oopt>>>>)>>
    ELSE <<Stderr("Unknown option '-%c'.", <<<<oopt>>>>)>>

\* The while loop advancing optind twice per pass: every second token only.
RECURSIVE ExtraTokens_skipping(_, _, _)
ExtraTokens_skipping(oi, n, av) ==
    IF oi < n THEN <<Arg(av, oi)>> \o ExtraTokens_skipping(oi + 2, n, av) ELSE <<>>

\* The tokens argv[oi], ..., argv[n - 1], as the while loop prints them.
RECURSIVE ExtraTokens(_, _, _)
ExtraTokens(oi, n, av) ==
    IF oi < n THEN <<Arg(av, oi)>> \o ExtraTokens(oi + 1, n, av) ELSE <<>>

\* report_extra_arguments printing argv[++optind]: the first leftover token
\* is never printed.
report_extra_arguments_preincrement(oi, n, av) ==
    IF oi < n
    THEN [exit_code |-> E_FAILURE,
          err |-> <<Stderr("Invalid arguments encountered: ", ExtraTokens(oi + 1, n, av))>>]
    ELSE [exit_code |-> E_SUCCESS, err |-> <<>>]

report_extra_arguments(oi, n, av) ==
    IF oi < n
    THEN [exit_code |-> E_FAILURE,
          err |-> <<Stderr("Invalid arguments encountered: ", ExtraTokens(oi, n, av))>>]
    ELSE [exit_code |-> E_SUCCESS, err |-> <<>>]

\* ------------------------------------------------------------------ actions

\* The process before its first call: getopt's globals as libc sets them,
\* the caller's record empty.
Startup ==
    /\ optind = 1
    /\ optarg = NULL
    /\ optopt = "?"
    /\ getopt_data = [initialized |-> FALSE, nextchar |-> <<>>,
                      first_nonopt |-> 0, last_nonopt |-> 0]
    /\ options = EmptyOptions
    /\ pc = "idle"
    /\ exit_code = E_FAILURE
    /\ option = "0"
    /\ ret = "none"
    /\ out = <<>>
    /\ entry = [options |-> EmptyOptions, optind |-> 1]
    /\ mode = "none"
    /\ prev = [mode |-> "none", ret |-> "none", options |-> EmptyOptions]
    /\ calls = 0

Init ==
    /\ argv \in ArgVectors
    /\ argv0 = argv
    /\ posixly_correct \in BOOLEAN
    /\ Startup

\* What the caller keeps of the call that just ended, when it calls again.
Outcome == [mode |-> mode, ret |-> ret, options |-> options]

\* process_options(argc, argv, &options) is entered with valid pointers; the
\* caller passes its record as it stands or emptied first.
Call(emptied) ==
    /\ pc = "idle"
    /\ calls < MaxCalls
    /\ prev' = Outcome
    /\ calls' = calls + 1
    /\ mode' = IF emptied THEN "fresh" ELSE "kept"
    /\ options' = IF emptied THEN EmptyOptions ELSE options
    /\ entry' = [options |-> options', optind |-> optind]
    /\ out' = <<>>
    /\ ret' = "none"
    /\ exit_code' = E_FAILURE
    /\ option' = "0"
    /\ pc' = "getopt"
    /\ UNCHANGED << argv, argv0, posixly_correct, optind, optarg, optopt,
                    getopt_data >>

\* The null check without its `goto END`: the scan starts all the same.
CallNull_scanning ==
    /\ pc = "idle"
    /\ calls < MaxCalls
    /\ prev' = Outcome
    /\ calls' = calls + 1
    /\ mode' = "null"
    /\ entry' = [options |-> options, optind |-> optind]
    /\ out' = <<print_error("process_options(): NULL argument passed.")>>
    /\ ret' = "none"
    /\ exit_code' = E_FAILURE
    /\ option' = "0"
    /\ pc' = "getopt"
    /\ UNCHANGED << argv, argv0, posixly_correct, optind, optarg, optopt, getopt_data,
                    options >>

\* process_options is entered with argv, *argv or options_p null.
CallNull ==
    /\ pc = "idle"
    /\ calls < MaxCalls
    /\ prev' = Outcome
    /\ calls' = calls + 1
    /\ mode' = "null"
    /\ entry' = [options |-> options, optind |-> optind]
    /\ out' = <<print_error("process_options(): NULL argument passed.")>>
    /\ ret' = "none"
    /\ exit_code' = E_FAILURE
    /\ option' = "0"
    /\ pc' = "END"
    /\ UNCHANGED << argv, argv0, posixly_correct, optind, optarg, optopt, getopt_data,
                    options >>

\* option = getopt(argc, argv, "n:p:h"): the result, and getopt's effect on
\* its globals and on argv.
GetoptEffect(g) ==
    /\ option' = g.c
    /\ argv' = g.argv
    /\ optind' = g.optind
    /\ optarg' = g.optarg
    /\ optopt' = g.optopt
    /\ getopt_data' = g.data

Frame == UNCHANGED << argv0, posixly_correct, ret, entry, mode, prev, calls >>

\* One iteration of the while loop, case 'n'.
OptionN ==
    /\ pc = "getopt"
    /\ getopt.c = "n"
    /\ LET g == getopt
           h == process_n_option(g.optarg, options)
       IN  /\ GetoptEffect(g)
           /\ options' = h.options
           /\ exit_code' = h.exit_code
           /\ IF E_SUCCESS # h.exit_code
              THEN /\ out' = out \o g.err \o h.err
                               \o <<print_error("Unable to process 'n' option.")>>
                   /\ pc' = "END"
              ELSE /\ out' = out \o g.err \o h.err
                   /\ pc' = "getopt"
    /\ Frame

\* case 'p' without the `goto END` after a failed handler: the loop goes on
\* to the next token.
OptionP_continuing ==
    /\ pc = "getopt"
    /\ getopt.c = "p"
    /\ LET g == getopt
           h == process_p_option(g.optarg, options)
       IN  /\ GetoptEffect(g)
           /\ options' = h.options
           /\ exit_code' = h.exit_code
           /\ IF E_SUCCESS # h.exit_code
              THEN /\ out' = out \o g.err \o h.err
                               \o <<print_error("Unable to process 'p' option.")>>
                   /\ pc' = "getopt"
              ELSE /\ out' = out \o g.err \o h.err
                   /\ pc' = "getopt"
    /\ Frame

\* One iteration of the while loop, case 'p'.
OptionP ==
    /\ pc = "getopt"
    /\ getopt.c = "p"
    /\ LET g == getopt
           h == process_p_option(g.optarg, options)
       IN  /\ GetoptEffect(g)
           /\ options' = h.options
           /\ exit_code' = h.exit_code
           /\ IF E_SUCCESS # h.exit_code
              THEN /\ out' = out \o g.err \o h.err
                               \o <<print_error("Unable to process 'p' option.")>>
                   /\ pc' = "END"
              ELSE /\ out' = out \o g.err \o h.err
                   /\ pc' = "getopt"
    /\ Frame

\* One iteration of the while loop, case 'h': exit_code is left as it is.
OptionH ==
    /\ pc = "getopt"
    /\ getopt.c = "h"
    /\ GetoptEffect(getopt)
    /\ out' = out \o getopt.err
    /\ pc' = "END"
    /\ UNCHANGED << options, exit_code >>
    /\ Frame

\* case '?' without the assignment of E_FAILURE to exit_code.
OptionInvalid_keeping_exit_code ==
    /\ pc = "getopt"
    /\ getopt.c = "?"
    /\ GetoptEffect(getopt)
    /\ out' = out \o getopt.err \o report_invalid_options(getopt.optopt)
    /\ pc' = "END"
    /\ UNCHANGED << options, exit_code >>
    /\ Frame

\* One iteration of the while loop, case '?'.  (The default case cannot be
\* taken: getopt with "n:p:h" returns only 'n', 'p', 'h', '?' or -1.)
OptionInvalid ==
    /\ pc = "getopt"
    /\ getopt.c = "?"
    /\ GetoptEffect(getopt)
    /\ out' = out \o getopt.err \o report_invalid_options(getopt.optopt)
    /\ exit_code' = E_FAILURE
    /\ pc' = "END"
    /\ UNCHANGED options
    /\ Frame

\* getopt returns -1: the while loop ends.
ScanEnd ==
    /\ pc = "getopt"
    /\ getopt.c = "-1"
    /\ GetoptEffect(getopt)
    /\ out' = out \o getopt.err
    /\ pc' = "extra"
    /\ UNCHANGED << options, exit_code >>
    /\ Frame

\* The leftover-argument check after the loop.
ExtraArguments ==
    /\ pc = "extra"
    /\ LET r == report_extra_arguments(optind, argc, argv)
       IN  IF E_SUCCESS # r.exit_code
           THEN /\ exit_code' = r.exit_code
                /\ out' = out \o r.err \o <<print_error("Invalid arguments passed.")>>
           ELSE /\ exit_code' = E_SUCCESS
                /\ out' = out
    /\ pc' = "END"
    /\ UNCHANGED << argv, optind, optarg, optopt, getopt_data, options, option >>
    /\ Frame

\* The END label: the help menu on E_FAILURE, then the return.
Return ==
    /\ pc = "END"
    /\ out' = IF E_FAILURE = exit_code THEN Append(out, print_help_menu) ELSE out
    /\ ret' = exit_code
    /\ pc' = "idle"
    /\ UNCHANGED << argv, argv0, posixly_correct, optind, optarg, optopt, getopt_data,
                    options, exit_code, option, entry, mode, prev, calls >>

Next ==
    \/ \E emptied \in BOOLEAN : Call(emptied)
    \/ CallNull
    \/ OptionN
    \/ OptionP
    \/ OptionH
    \/ OptionInvalid
    \/ ScanEnd
    \/ ExtraArguments
    \/ Return

Spec == Init /\ [][Next]_vars


\* ----------------------------------------------------------------- claims

\* A call of process_options has returned.
Returned == pc = "idle" /\ mode # "none"

\* The lines of `stream` the call has written.
Written(stream) == { i \in 1..Len(out) : out[i].stream = stream }

\* The call has written the diagnostic line `msg`.
Said(msg) == \E i \in 1..Len(out) : out[i].msg = msg

HelpShown == { i \in 1..Len(out) : out[i] = print_help_menu }

\* C1: a call whose scan reached a -h flag displays the help menu and returns
\* a non-success result, whatever flags were processed before it.
HelpNeverSucceeds ==
    (Returned /\ option = "h") =>
        (ret # E_SUCCESS /\ Cardinality(HelpShown) = 1)

\* C2: two calls in a row on the same argument vector, each on a freshly
\* emptied record, return the same value and leave identical records.
RepeatedCallAgrees ==
    (Returned /\ mode = "fresh" /\ prev.mode = "fresh") =>
        (ret = prev.ret /\ options = prev.options)

\* C3: a -n met when n_flag is already true, or a -p met when p_flag is
\* already true, ends the scan with E_FAILURE, which the call then returns,
\* and leaves the record as the first occurrence set it.
DuplicateN == pc = "getopt" /\ getopt.c = "n" /\ options.n_flag
DuplicateP == pc = "getopt" /\ getopt.c = "p" /\ options.p_flag
DuplicateReported ==
    \/ Said("process_options(): '-n' flag already true.")
    \/ Said("process_p_option(): '-p' flag already true.")
DuplicateOptionFails ==
    [][ /\ (DuplicateN \/ DuplicateP) =>
              (pc' = "END" /\ exit_code' = E_FAILURE /\ options' = options
               /\ DuplicateReported')
        /\ (pc = "END" /\ DuplicateReported) =>
              (ret' = E_FAILURE /\ options' = options) ]_vars

\* C3 witness: a call that accepted -n and then met -n again has returned.
DuplicateNSeen ==
    /\ Returned
    /\ ~entry.options.n_flag
    /\ options.n_flag
    /\ Said("process_options(): '-n' flag already true.")
    /\ ret = E_FAILURE


\* C4: whenever p_flag is true, the stored port text is at most 5 characters
\* long (a longer VALUE makes the call fail and sets nothing).
PortTextAtMostFive ==
    options.p_flag => Len(options.p_value) <= MAX_PORT_SIZE - 1

\* C5: a call that returns a non-success result has rendered the help menu
\* exactly once, as the last thing it wrote; a call that returns success has
\* written nothing at all.
OutputFollowsResult ==
    Returned =>
        /\ (ret # E_SUCCESS) =>
               (Cardinality(HelpShown) = 1 /\ out[Len(out)] = print_help_menu)
        /\ (ret = E_SUCCESS) => out = <<>>

\* C5 witness: a call failed in the -p handler and rendered the help menu.
FailedPortShowsHelp ==
    /\ Returned
    /\ ret = E_FAILURE
    /\ Said("Unable to process 'p' option.")
    /\ Cardinality(HelpShown) = 1

\* C6 (as claimed): a call that returns a non-success result leaves every
\* field of the record as it was at entry.
FailureLeavesRecordAsAtEntry ==
    (Returned /\ ret # E_SUCCESS) => options = entry.options

\* C6 (amended): within a call, the record changes only in an iteration whose
\* -n or -p handler returned E_SUCCESS and the scan goes on; the token that
\* ends the scan, and every step after it, leaves the record as it is.
OnlyAcceptedOptionsAreStored ==
    [][ (pc # "idle" /\ options' # options) =>
            /\ pc = "getopt" /\ pc' = "getopt"
            /\ option' \in {"n", "p"}
            /\ exit_code' = E_SUCCESS ]_vars

\* C6 witness: a call has returned a non-success result and the record
\* differs from what it was at entry.
PartialRecordOnFailure ==
    Returned /\ ret = E_FAILURE /\ options # entry.options

\* The call that has returned was the scan of `prog FLAG VALUE` from the start
\* of the argument vector, on an empty record.
OnlyOption(flag) ==
    /\ Returned
    /\ mode # "null"
    /\ entry = [options |-> EmptyOptions, optind |-> 1]
    /\ Len(argv) = 3
    /\ argv[2] = flag

AllDigits(t) == t # <<>> /\ \A i \in 1..Len(t) : t[i] \in Digits

\* C7: on `prog -n VALUE`, VALUE converting to an integer v >= 2, a call on an
\* empty record returns success with n_flag true, n_value = v, p_flag false.
ThreadCountStored ==
    (OnlyOption(FlagN)
       /\ str_to_int32(argv[3]).exit_code = E_SUCCESS
       /\ str_to_int32(argv[3]).signed_num >= 2) =>
        /\ ret = E_SUCCESS
        /\ options = [EmptyOptions EXCEPT
                         !.n_flag = TRUE,
                         !.n_value = str_to_int32(argv[3]).signed_num]

\* C7 witness: `prog -n 08` has been scanned and 8 stored.
ThreadCountEightStored ==
    /\ OnlyOption(FlagN)
    /\ argv[3] = <<"0", "8">>
    /\ options.n_flag /\ options.n_value = 8
    /\ ret = E_SUCCESS

\* C8: n_flag true implies n_value >= 2 in every state; a -n whose value
\* converts to an integer below 2 ends the scan with E_FAILURE, which the
\* call returns, and leaves the record unchanged.
LowThreadCount ==
    /\ pc = "getopt"
    /\ getopt.c = "n"
    /\ str_to_int32(getopt.optarg).exit_code = E_SUCCESS
    /\ str_to_int32(getopt.optarg).signed_num < 2
TooFewThreads == "process_options(): Number of threads must be 2 or more."
ThreadCountAtLeastTwo ==
    [][ /\ options'.n_flag => options'.n_value >= 2
        /\ LowThreadCount =>
              (pc' = "END" /\ exit_code' = E_FAILURE /\ options' = options)
        /\ (pc = "END" /\ Said(TooFewThreads)) =>
              (ret' = E_FAILURE /\ options' = options) ]_vars

\* C8 witness: a call on `-n VALUE` with VALUE below 2 has failed and n_flag
\* is still false.
LowThreadCountRejected ==
    /\ Returned
    /\ Said(TooFewThreads)
    /\ ret = E_FAILURE
    /\ ~options.n_flag

\* C9: on `prog -p VALUE`, VALUE at most 5 digits converting to an integer in
\* [1025, 65535], a call on an empty record returns success with p_flag true
\* and p_value the text of VALUE as given.
PortTextStored ==
    (OnlyOption(FlagP)
       /\ AllDigits(argv[3]) /\ Len(argv[3]) <= 5
       /\ str_to_int32(argv[3]).exit_code = E_SUCCESS
       /\ str_to_int32(argv[3]).signed_num >= 1025
       /\ str_to_int32(argv[3]).signed_num <= 65535) =>
        /\ ret = E_SUCCESS
        /\ options = [EmptyOptions EXCEPT !.p_flag = TRUE, !.p_value = argv[3]]

\* C9 witness: `prog -p 01025` has been scanned and the text 01025 stored.
PortWithLeadingZeroStored ==
    /\ OnlyOption(FlagP)
    /\ argv[3] = <<"0", "1", "0", "2", "5">>
    /\ options.p_flag /\ options.p_value = <<"0", "1", "0", "2", "5">>
    /\ ret = E_SUCCESS

\* C10: a -p whose value converts to an integer below 1025 or above 65535
\* ends the scan with E_FAILURE, which the call returns, and leaves the
\* record unchanged; 1025 and 65535 themselves are accepted.
PortValue == str_to_int32(getopt.optarg)
PortOption ==
    pc = "getopt" /\ getopt.c = "p" /\ PortValue.exit_code = E_SUCCESS
PortOutOfRange == "process_p_option(): Port number out of range."
PortOutsideRangeFails ==
    [][ /\ (PortOption /\ (PortValue.signed_num < 1025
                           \/ PortValue.signed_num > 65535)) =>
              (pc' = "END" /\ exit_code' = E_FAILURE /\ options' = options)
        /\ (PortOption /\ PortValue.signed_num \in {1025, 65535}
                       /\ ~options.p_flag) =>
              (pc' = "getopt" /\ exit_code' = E_SUCCESS /\ options'.p_flag)
        /\ (pc = "END" /\ Said(PortOutOfRange)) =>
              (ret' = E_FAILURE /\ options' = options) ]_vars

\* C10 witness: a call on `-p 65536` has failed with the port unset.
PortJustAboveRejected ==
    /\ Returned
    /\ Said(PortOutOfRange)
    /\ optarg = <<"6", "5", "5", "3", "6">>
    /\ ret = E_FAILURE
    /\ ~options.p_flag


\* The scan has just met -n or -p with a value the numeric parser rejects.
UnparsableValue ==
    /\ getopt.c \in OptWithArg
    /\ getopt.optarg # NULL
    /\ E_SUCCESS # str_to_int32(getopt.optarg).exit_code

\* C11: a -n or -p whose value the numeric parser rejects (empty, not a
\* number, beyond 32 bits) ends the scan with a non-success result, and the
\* call returns that result; neither step sets the option's flag or stores a
\* value.
ParserFailureStoresNothing ==
    [][ /\ (pc = "getopt" /\ UnparsableValue) =>
              /\ pc' = "END"
              /\ exit_code' # E_SUCCESS
              /\ options' = options
        /\ (/\ pc = "END"
            /\ option \in OptWithArg
            /\ E_SUCCESS # str_to_int32(optarg).exit_code) =>
              /\ ret' # E_SUCCESS
              /\ options' = options ]_vars

\* -n 2147483648 was refused and nothing was stored.
OverflowingThreadCountRefused ==
    /\ Returned
    /\ option = "n"
    /\ optarg = TooLarge
    /\ Said("Unable to convert 'n_value' to number.")
    /\ ret = E_FAILURE
    /\ options.n_flag = FALSE
    /\ options.n_value = 0

\* The scan of this call ran to its end (getopt returned -1) and the leftover
\* check has been made.
LeftoverChecked ==
    /\ pc \in {"END", "idle"}
    /\ option = "-1"
    /\ mode \in {"fresh", "kept"}

\* The lines that list leftover tokens.
LeftoverLines ==
    { i \in 1..Len(out) : out[i].msg = "Invalid arguments encountered: " }

\* The tokens the scan has passed over: argv[1] .. argv[optind - 1].
Consumed == SubSeq(argv, 2, optind)

\* The tokens from the cursor on: argv[optind] .. argv[argc - 1].
Unconsumed == SubSeq(argv, optind + 1, argc)

\* a can be obtained from b by deleting elements (order kept).
RECURSIVE IsSubsequence(_, _)
IsSubsequence(a, b) ==
    IF a = <<>> THEN TRUE
    ELSE IF b = <<>> THEN FALSE
    ELSE IF Head(a) = Head(b) THEN IsSubsequence(Tail(a), Tail(b))
    ELSE IsSubsequence(a, Tail(b))

\* How many times token t occurs in s.
Occurrences(t, s) == Cardinality({ i \in 1..Len(s) : s[i] = t })

\* C12: when the scan ends without error, the tokens from the cursor on are
\* the ones the scan did not take as a flag or a flag's value; if there is
\* one, the call fails and one diagnostic line lists them all, each once, in
\* the order the caller gave them; if there is none, the check passes.
LeftoverTokensListed ==
    LeftoverChecked =>
        /\ \A i \in 1..Len(Consumed) :
              \/ ~NonOption(Consumed[i])
              \/ i > 1 /\ Consumed[i - 1] \in {FlagN, FlagP}
        /\ \A i \in 1..Len(argv0) :
              Occurrences(argv0[i], argv) = Occurrences(argv0[i], argv0)
        /\ IsSubsequence(Unconsumed, argv0)
        /\ IF Unconsumed # <<>>
           THEN /\ exit_code = E_FAILURE
                /\ pc = "idle" => ret = E_FAILURE
                /\ Cardinality(LeftoverLines) = 1
                /\ \A i \in LeftoverLines :
                      out[i] = Stderr("Invalid arguments encountered: ", Unconsumed)
           ELSE /\ exit_code = E_SUCCESS
                /\ pc = "idle" => ret = E_SUCCESS
                /\ LeftoverLines = {}

\* `extra -p 8080`: the port was stored, getopt moved the positional token
\* behind it, and the call failed listing that one token.
LeftoverAfterPortListed ==
    /\ Returned
    /\ option = "-1"
    /\ entry.optind = 1
    /\ argv0 = << ProgName, Extra, FlagP, <<"8", "0", "8", "0">> >>
    /\ argv = << ProgName, FlagP, <<"8", "0", "8", "0">>, Extra >>
    /\ options.p_flag = TRUE
    /\ Unconsumed = << Extra >>
    /\ ret = E_FAILURE
    /\ Cardinality(LeftoverLines) = 1

\* The call ended on a -n or -p that is the last token, with no value.
MissingValue ==
    /\ Returned
    /\ option = "?"
    /\ optopt \in OptWithArg

\* C13: a -n or -p with no following value makes the call fail, and the call
\* writes a single diagnostic line: the "requires an argument" form naming
\* that flag, on the diagnostic stream.
MissingValueSingleLine ==
    MissingValue =>
        /\ ret = E_FAILURE
        /\ Cardinality(Written("stderr")) = 1
        /\ \A i \in Written("stderr") :
              out[i] = Stderr("Option '-%c' requires an argument.", <<<<optopt>>>>)

\* getopt is about to reject a flag character that is not n, p or h.
UnknownFlag ==
    /\ pc = "getopt"
    /\ getopt.c = "?"
    /\ getopt.optopt \notin OptChars

\* The lines of the "requires an argument" form, getopt's own included.
RequiresArgumentLines ==
    { i \in 1..Len(out) :
        out[i].msg \in {"Option '-%c' requires an argument.",
                        "getopt: option requires an argument"} }

\* C14: a flag character other than n, p and h ends the scan with
\* E_FAILURE; the line process_options writes for it is the "unknown option"
\* form naming exactly that character, and no line of the "requires an
\* argument" form is written for it, up to the return.
UnknownFlagReported ==
    [][ /\ UnknownFlag =>
              /\ pc' = "END"
              /\ exit_code' = E_FAILURE
              /\ options' = options
              /\ optopt' = getopt.optopt
              /\ out' = out \o << Stderr("getopt: invalid option", <<<<optopt'>>>>),
                                  Stderr("Unknown option '-%c'.", <<<<optopt'>>>>) >>
        /\ (pc = "END" /\ option = "?" /\ optopt \notin OptChars) =>
              /\ ret' = E_FAILURE
              /\ out' = Append(out, print_help_menu)
              /\ \A i \in RequiresArgumentLines : out[i].args # <<<<optopt>>>> ]_vars

\* `-:` after an accepted -n 4: the colon was reported as unknown.
ColonReportedUnknown ==
    /\ Returned
    /\ option = "?"
    /\ optopt = ":"
    /\ options.n_flag = TRUE
    /\ ret = E_FAILURE
    /\ out[Len(out) - 1] = Stderr("Unknown option '-%c'.", <<<<":">>>>)
    /\ RequiresArgumentLines = {}

\* getopt's cursor and the rest of its state.
Cursor == << optind, optarg, optopt, getopt_data, argv >>

\* C15: a call with a null argv, a null argv[0] or a null record pointer
\* goes straight to its return: it returns E_FAILURE, and from entry to
\* return no token is scanned, the cursor does not move and the record is
\* not written.
NullArgumentFailsAtOnce ==
    [][ mode' = "null" =>
           /\ pc \in {"idle", "END"}
           /\ pc = "idle" => pc' = "END"
           /\ pc = "END" => (pc' = "idle" /\ ret' = E_FAILURE)
           /\ exit_code' = E_FAILURE
           /\ option' = "0"
           /\ Cursor' = Cursor
           /\ options' = options ]_vars

\* A null call made after `-n 4` was stored: it failed, and the cursor and
\* the record are as the earlier call left them.
NullCallRefused ==
    /\ Returned
    /\ mode = "null"
    /\ ret = E_FAILURE
    /\ prev.mode = "fresh"
    /\ prev.ret = E_SUCCESS
    /\ options = prev.options
    /\ options.n_flag = TRUE
    /\ optind = entry.optind
    /\ optind = 3
    /\ argc = 3
    /\ out = << print_error("process_options(): NULL argument passed."),
                print_help_menu >>

\* Some token of the vector the caller passed is the flag `flag`.
Present(flag) == \E i \in 2..Len(argv0) : argv0[i] = flag

\* C16: a call returns E_SUCCESS only after exhausting the argument vector:
\* the cursor is at argc with no token half-read, and each -n / -p flag
\* present in the vector is set in the record.
SuccessExhaustsVector ==
    (Returned /\ mode \in {"fresh", "kept"} /\ ret = E_SUCCESS) =>
        /\ optind = argc
        /\ getopt_data.nextchar = <<>>
        /\ Present(FlagN) => options.n_flag
        /\ Present(FlagP) => options.p_flag

\* The token getopt is about to read ends the scan: -h, a rejected flag, or
\* a -n / -p whose handler fails.
TerminalToken ==
    /\ pc = "getopt"
    /\ \/ getopt.c \in {"h", "?"}
       \/ /\ getopt.c = "n"
          /\ E_SUCCESS # process_n_option(getopt.optarg, options).exit_code
       \/ /\ getopt.c = "p"
          /\ E_SUCCESS # process_p_option(getopt.optarg, options).exit_code

\* C17: within one call the scan is fail-fast.  The step that meets a
\* terminal token moves to END and writes no field of the record; from END
\* the call only returns: getopt is not called again (its cursor and argv
\* stay as they are), no handler runs and the record is not written.
ScanIsFailFast ==
    [][ /\ TerminalToken =>
              /\ pc' = "END"
              /\ options' = options
        /\ pc = "END" =>
              /\ pc' = "idle"
              /\ ret' = exit_code
              /\ Cursor' = Cursor
              /\ option' = option
              /\ options' = options
              /\ Len(out') <= Len(out) + 1
              /\ \A i \in 1..Len(out') : i > Len(out) => out'[i] = print_help_menu ]_vars

\* `-x -n 4`: the call returned at -x; -n 4 was not read and not stored.
LaterTokensNotRead ==
    /\ Returned
    /\ entry.optind = 1
    /\ argv0 = << ProgName, FlagX, FlagN, <<"4">> >>
    /\ option = "?"
    /\ optind = 2
    /\ options = EmptyOptions
    /\ ret = E_FAILURE
    /\ ~Said("Unable to process 'n' option.")

\* C18: a handler reports success exactly when it has stored its value in
\* that call.  The -n step leaves E_SUCCESS iff it turned n_flag from false
\* to true and stored the parsed integer; the -p step leaves E_SUCCESS iff
\* it turned p_flag from false to true and stored its argument text; a step
\* that leaves another code leaves the record as it was.
HandlerSuccessMeansStored ==
    [][ /\ (pc = "getopt" /\ getopt.c = "n") =>
              /\ exit_code' = process_n_option(getopt.optarg, options).exit_code
              /\ exit_code' = E_SUCCESS <=>
                    /\ options.n_flag = FALSE
                    /\ options'.n_flag = TRUE
                    /\ str_to_int32(optarg').exit_code = E_SUCCESS
                    /\ options'.n_value = str_to_int32(optarg').signed_num
              /\ exit_code' # E_SUCCESS => options' = options
        /\ (pc = "getopt" /\ getopt.c = "p") =>
              /\ exit_code' = process_p_option(getopt.optarg, options).exit_code
              /\ exit_code' = E_SUCCESS <=>
                    /\ options.p_flag = FALSE
                    /\ options'.p_flag = TRUE
                    /\ options'.p_value = optarg'
              /\ exit_code' # E_SUCCESS => options' = options ]_vars

\* -p 0001025 (seven characters, past the length check's limit) has just
\* been handled: the handler succeeded and the text is stored.
LongPortTextStored ==
    /\ pc = "getopt"
    /\ option = "p"
    /\ Len(optarg) = 7
    /\ exit_code = E_SUCCESS
    /\ options.p_flag = TRUE
    /\ options.p_value = optarg

\* The step is the caller emptying its record before a call; every other
\* step is process_options' own.
CallerEmpties == pc = "idle" /\ mode' = "fresh"

\* C19: the record is write-once per option over any sequence of calls on
\* the same record.  No step of process_options turns n_flag or p_flag from
\* true to false or changes the value of an option whose flag is true; the
\* -n step leaves p_flag and p_value alone and the -p step leaves n_flag and
\* n_value alone; entering a call re-initialises nothing.
RecordIsWriteOnce ==
    [][ ~CallerEmpties =>
          /\ options.n_flag =>
                (options'.n_flag /\ options'.n_value = options.n_value)
          /\ options.p_flag =>
                (options'.p_flag /\ options'.p_value = options.p_value)
          /\ (pc = "getopt" /\ getopt.c = "n") =>
                /\ options'.p_flag = options.p_flag
                /\ options'.p_value = options.p_value
          /\ (pc = "getopt" /\ getopt.c = "p") =>
                /\ options'.n_flag = options.n_flag
                /\ options'.n_value = options.n_value
          /\ (pc = "getopt" /\ getopt.c \notin OptWithArg) => options' = options
          /\ pc # "getopt" => options' = options ]_vars

\* A second call on the kept record met -n again with another value: it was
\* refused and the record still holds the first call's thread count.
SecondCallKeepsThreadCount ==
    /\ Returned
    /\ mode = "kept"
    /\ prev.mode = "fresh"
    /\ option = "n"
    /\ entry.options.n_flag = TRUE
    /\ str_to_int32(optarg).signed_num # entry.options.n_value
    /\ options = entry.options
    /\ options = prev.options
    /\ ret = E_FAILURE

\* What is left of the running call: the tokens from the cursor to argc
\* while the option loop runs, then the leftover check, then the return.
Rank ==
    CASE pc = "getopt" -> 3 + (argc - optind)
      [] pc = "extra"  -> 2
      [] pc = "END"    -> 1
      [] OTHER         -> 0

\* C20: every call on a finite argument vector terminates.  Each step of a
\* call lowers Rank; an iteration of the option loop that does not leave the
\* loop strictly advances optind; optind never exceeds argc; the leftover
\* loop prints argv[optind], ..., argv[argc - 1], one token per index, and
\* stops.
EveryCallTerminates ==
    [][ /\ optind' <= Len(argv')
        /\ pc # "idle" => (Rank' < Rank /\ Rank' >= 0)
        /\ (pc = "getopt" /\ pc' = "getopt") => optind' > optind
        /\ (pc = "extra" /\ optind < argc) =>
              \E line \in { out'[i] : i \in 1..Len(out') } :
                 /\ line.msg = "Invalid arguments encountered: "
                 /\ Len(line.args) = argc - optind
                 /\ \A k \in 1..Len(line.args) :
                       line.args[k] = Arg(argv, optind + k - 1)
        /\ pc = "extra" => (pc' = "END" /\ optind' = optind)
        /\ pc' \in {"idle", "getopt", "extra", "END"} ]_vars

\* A first call that read a -n and a -p and returned E_SUCCESS with the
\* cursor at argc.
FullScanReturned ==
    /\ Returned
    /\ entry.optind = 1
    /\ option = "-1"
    /\ optind = argc
    /\ argc = 5
    /\ options.n_flag = TRUE
    /\ options.p_flag = TRUE
    /\ ret = E_SUCCESS

=============================================================================
